---- MODULE Spec2Model ----
(***************************************************************************)
(* A model of synonyms.py: the CheBI/PubChem CSV transformation stages     *)
(* (decompressors, filter, removeDuplicates, lowercaseNames,               *)
(* mergeCSVCheBI), the sqlite loader makeDatabase, and the module-level    *)
(* script.  A CSV file on disk is a header and rows of text cells; a text  *)
(* is a tuple of one-character strings.  pandas.read_csv turns a file into *)
(* a frame (column labels, row index labels, typed values) and to_csv      *)
(* turns a frame back into a file.                                         *)
(***************************************************************************)
EXTENDS Integers, Sequences, FiniteSets, TLC

VARIABLES
    fs,        \* the directory: path -> file content, or NoFile
    prev,      \* the directory as it was when the last call started
    db,        \* the sqlite store: table name -> table, or NoTable
    loaded,    \* the frames appended by the makeDatabase calls that returned
    handles,   \* number of sqlite connections opened and not closed
    held,      \* the frame held by the last call when it ended, or NoFrame
    io,        \* the paths read by the last call, those written by its stage
               \* so far and those written by the stage before
    pc,        \* position of the script / outcome of the last call
    runs       \* number of calls made so far

vars == <<fs, prev, db, loaded, handles, held, io, pc, runs>>

(***************************************************************************)
(* Bounds of the model.                                                    *)
(***************************************************************************)
MaxRows == 3        \* rows in an input table
MaxCalls == 2       \* repetitions of a repeatable call (filter, makeDatabase)
MaxLookupRows == 2  \* rows in a table mergeCSVCheBI indexes

(***************************************************************************)
(* Texts.                                                                  *)
(***************************************************************************)
Digits == <<"0", "1", "2", "3", "4", "5", "6", "7", "8", "9">>

DigitSet == {Digits[i] : i \in 1..10}

DigitVal(c) == (CHOOSE i \in 1..10 : Digits[i] = c) - 1

\* str.lower() on one character (ASCII letters; everything else unchanged)
LowerChar(c) ==
    CASE c = "A" -> "a" [] c = "B" -> "b" [] c = "C" -> "c" [] c = "D" -> "d"
      [] c = "E" -> "e" [] c = "F" -> "f" [] c = "G" -> "g" [] c = "H" -> "h"
      [] c = "I" -> "i" [] c = "J" -> "j" [] c = "K" -> "k" [] c = "L" -> "l"
      [] c = "M" -> "m" [] c = "N" -> "n" [] c = "O" -> "o" [] c = "P" -> "p"
      [] c = "Q" -> "q" [] c = "R" -> "r" [] c = "S" -> "s" [] c = "T" -> "t"
      [] c = "U" -> "u" [] c = "V" -> "v" [] c = "W" -> "w" [] c = "X" -> "x"
      [] c = "Y" -> "y" [] c = "Z" -> "z" [] OTHER -> c

\* str.upper() on one character
UpperChar(c) ==
    CASE c = "a" -> "A" [] c = "b" -> "B" [] c = "c" -> "C" [] c = "d" -> "D"
      [] c = "e" -> "E" [] c = "f" -> "F" [] c = "g" -> "G" [] c = "h" -> "H"
      [] c = "i" -> "I" [] c = "j" -> "J" [] c = "k" -> "K" [] c = "l" -> "L"
      [] c = "m" -> "M" [] c = "n" -> "N" [] c = "o" -> "O" [] c = "p" -> "P"
      [] c = "q" -> "Q" [] c = "r" -> "R" [] c = "s" -> "S" [] c = "t" -> "T"
      [] c = "u" -> "U" [] c = "v" -> "V" [] c = "w" -> "W" [] c = "x" -> "X"
      [] c = "y" -> "Y" [] c = "z" -> "Z" [] OTHER -> c

Lower(s) == [i \in 1..Len(s) |-> LowerChar(s[i])]

Upper(s) == [i \in 1..Len(s) |-> UpperChar(s[i])]

\* Python's `sub in s` on strings
Contains(s, sub) ==
    \E i \in 1..(Len(s) - Len(sub) + 1) : SubSeq(s, i, i + Len(sub) - 1) = sub

\* the decimal text of a natural number
RECURSIVE IntText(_)
IntText(n) == IF n < 10 THEN <<Digits[n + 1]>>
              ELSE IntText(n \div 10) \o <<Digits[(n % 10) + 1]>>

IsIntText(s) == s # <<>> /\ \A i \in 1..Len(s) : s[i] \in DigitSet

RECURSIVE IntVal(_)
IntVal(s) == IF Len(s) = 1 THEN DigitVal(s[1])
             ELSE 10 * IntVal(SubSeq(s, 1, Len(s) - 1)) + DigitVal(s[Len(s)])

\* the text pandas writes for an integral float: "<digits>.0"
IsFloatText(s) ==
    /\ Len(s) >= 3
    /\ SubSeq(s, Len(s) - 1, Len(s)) = <<".", "0">>
    /\ IsIntText(SubSeq(s, 1, Len(s) - 2))

FloatVal(s) == IntVal(SubSeq(s, 1, Len(s) - 2))

(***************************************************************************)
(* Values of a frame: int64, float64 (integral or NaN) and str objects.    *)
(***************************************************************************)
IntV(n) == [int |-> n]

FloatV(n) == [float |-> n]

StrV(s) == [str |-> s]

NaN == [nan |-> TRUE]

IsInt(v) == DOMAIN v = {"int"}

IsFloat(v) == DOMAIN v = {"float"}

IsStr(v) == DOMAIN v = {"str"}

IsNaN(v) == DOMAIN v = {"nan"}

\* Python's str(v)
PyStr(v) ==
    IF IsStr(v) THEN v.str
    ELSE IF IsInt(v) THEN IntText(v.int)
    ELSE IF IsFloat(v) THEN IntText(v.float) \o <<".", "0">>
    ELSE <<"n", "a", "n">>

\* Python's None, the result of dict.get for an absent key
PyNone == [pynone |-> TRUE]

IsNone(v) == DOMAIN v = {"pynone"}

\* Python's truth value of v: `if v:`.  NaN is a non-zero float, hence true.
Truthy(v) ==
    IF IsNone(v) THEN FALSE
    ELSE IF IsStr(v) THEN v.str # <<>>
    ELSE IF IsInt(v) THEN v.int # 0
    ELSE IF IsFloat(v) THEN v.float # 0
    ELSE TRUE

(***************************************************************************)
(* Files and frames.                                                       *)
(***************************************************************************)
NoFile == [absent |-> TRUE]

IsFile(f) == DOMAIN f = {"header", "rows"}

File(header, rows) == [header |-> header, rows |-> rows]

Frame(columns, index, rows) == [columns |-> columns, index |-> index, rows |-> rows]

\* position of column `name` in a sequence of column labels (0: absent)
ColPos(columns, name) ==
    IF \E i \in 1..Len(columns) : columns[i] = name
    THEN CHOOSE i \in 1..Len(columns) :
            columns[i] = name /\ \A j \in 1..(i - 1) : columns[j] # name
    ELSE 0

HasCol(columns, name) == ColPos(columns, name) # 0

\* the cells of column p of a file, top to bottom
ColumnCells(rows, p) == [i \in 1..Len(rows) |-> rows[i][p]]

\* texts read_csv takes for a missing value (the alphabetic default na_values)
NaTexts ==
    { <<>>, <<"N", "A">>, <<"N", "a", "N">>, <<"n", "a", "n">>,
      <<"N", "U", "L", "L">>, <<"n", "u", "l", "l">>,
      <<"N", "/", "A">>, <<"n", "/", "a">> }

\* read_csv's dtype for a column from its cells
ColumnType(cells) ==
    LET present == {i \in 1..Len(cells) : cells[i] \notin NaTexts}
    IN  IF cells = <<>> THEN "object"
        ELSE IF \A i \in present : IsIntText(cells[i])
        THEN IF present = 1..Len(cells) THEN "int64" ELSE "float64"
        ELSE IF \A i \in present : IsIntText(cells[i]) \/ IsFloatText(cells[i])
        THEN "float64"
        ELSE "object"

\* read_csv's value for one cell of a column of dtype t
ParseCell(t, s) ==
    IF s \in NaTexts THEN NaN
    ELSE IF t = "int64" THEN IntV(IntVal(s))
    ELSE IF t = "float64"
         THEN FloatV(IF IsIntText(s) THEN IntVal(s) ELSE FloatVal(s))
    ELSE StrV(s)

\* the label read_csv gives header cell i: an empty cell is "Unnamed: i-1", and
\* a label already used to its left gets the first free ".k" suffix
UnnamedLabel(i) == "Unnamed: " \o ToString(i - 1)

RawLabel(header, i) == IF header[i] = "" THEN UnnamedLabel(i) ELSE header[i]

RECURSIVE FreeLabel(_, _, _)
FreeLabel(base, k, used) ==
    LET cand == base \o "." \o ToString(k)
    IN  IF cand \in used THEN FreeLabel(base, k + 1, used) ELSE cand

RECURSIVE Labels(_, _, _)
Labels(header, i, done) ==
    IF i > Len(header) THEN done
    ELSE LET raw == RawLabel(header, i)
             used == {done[j] : j \in 1..Len(done)}
                        \cup {RawLabel(header, j) : j \in (i + 1)..Len(header)}
             lab == IF raw \in {done[j] : j \in 1..Len(done)}
                    THEN FreeLabel(raw, 1, used) ELSE raw
         IN  Labels(header, i + 1, Append(done, lab))

\* pd.read_csv(path): a frame with a fresh RangeIndex 0..n-1
ReadCsv(f) ==
    LET n == Len(f.rows)
        types == [p \in 1..Len(f.header) |-> ColumnType(ColumnCells(f.rows, p))]
    IN  Frame(Labels(f.header, 1, <<>>),
              [i \in 1..n |-> i - 1],
              [i \in 1..n |-> [p \in 1..Len(f.header) |->
                                  ParseCell(types[p], f.rows[i][p])]])

\* the text to_csv writes for a value (a missing value is the empty text)
CellText(v) == IF IsNaN(v) THEN <<>> ELSE PyStr(v)

\* frame.to_csv(path, index=False)
ToCsvNoIndex(data) ==
    File(data.columns,
         [i \in 1..Len(data.rows) |->
            [p \in 1..Len(data.columns) |-> CellText(data.rows[i][p])]])

\* frame.to_csv(path): index defaults to True, so the row labels are written
\* as a first column under an empty header cell
ToCsvWithIndex(data) ==
    File(<<"">> \o data.columns,
         [i \in 1..Len(data.rows) |->
            <<IntText(data.index[i])>> \o
            [p \in 1..Len(data.columns) |-> CellText(data.rows[i][p])]])

NoFrame == [none |-> TRUE]

\* a drop that takes the label for a position in the live frame
DropPosition(data, label) ==
    IF label + 1 <= Len(data.rows)
    THEN Frame(data.columns,
               SubSeq(data.index, 1, label) \o
                   SubSeq(data.index, label + 2, Len(data.index)),
               SubSeq(data.rows, 1, label) \o
                   SubSeq(data.rows, label + 2, Len(data.rows)))
    ELSE data

\* frame.drop(index=label, inplace=True): remove the rows labelled `label`
DropLabel(data, label) ==
    LET keep == {i \in 1..Len(data.index) : data.index[i] # label}
        pos(k) == CHOOSE i \in keep : Cardinality({j \in keep : j < i}) = k - 1
        m == Cardinality(keep)
    IN  Frame(data.columns,
              [k \in 1..m |-> data.index[pos(k)]],
              [k \in 1..m |-> data.rows[pos(k)]])

(***************************************************************************)
(* The directory.                                                          *)
(***************************************************************************)
ChebiNamesCsv == "./chebiNames.csv"

ChebiFormulasCsv == "./chebiFormulas.csv"

ChebiCASCsv == "./chebiCAS.csv"

ChebiChemicalsCASCsv == "./chebiChemicalsCAS.csv"

RemoveDuplicatesOutput == "./chebiChemicalsCASSet.csv"

LowercaseNamesOutput == "./chebiChemicalsCASSetUPPER.csv"

SynonymsBatchCsv == "./cid-synonyms01.csv"

Paths ==
    { "./cid-mass", "./cid-mass.csv", "./cid-synonyms", "./cid-synonyms.csv",
      "./names_3star.tsv", "chemical_data.tsv", "database_accession.tsv",
      ChebiNamesCsv, ChebiFormulasCsv, ChebiCASCsv, ChebiChemicalsCASCsv,
      RemoveDuplicatesOutput, LowercaseNamesOutput, SynonymsBatchCsv,
      "./chebiChemicalsCASSetUpper.csv", "./chebiChemicals.csv" }

\* the file a path names: a path without "./" is relative to the same directory
Resolve(path) ==
    IF path = "chebiChemicalsCASSet.csv" THEN "./chebiChemicalsCASSet.csv" ELSE path

Exists(dir, path) == Resolve(path) \in Paths /\ IsFile(dir[Resolve(path)])

EmptyDir == [p \in Paths |-> NoFile]

\* all sequences over S of length at most n
SeqsUpTo(S, n) == UNION {[1..k -> S] : k \in 0..n}

(***************************************************************************)
(* removeDuplicates(input)                                                 *)
(***************************************************************************)
\* the key of a mutant that forgets .lower()
DedupKeyExact(v) == PyStr(v)

\* lowered = str(row["Name"]).lower()
DedupKey(v) == Lower(PyStr(v))

\* the loop over data.iterrows(): the iterator walks the index and the values
\* it took when the loop started (snap), while drop() changes the frame itself
RECURSIVE RemoveDuplicatesLoop(_, _, _, _)
RemoveDuplicatesLoop(snap, i, names, live) ==
    IF i > Len(snap.rows) THEN live
    ELSE LET lowered == DedupKey(snap.rows[i][ColPos(snap.columns, "Name")])
         IN  IF lowered \in names
             THEN RemoveDuplicatesLoop(snap, i + 1, names,
                                       DropLabel(live, snap.index[i]))
             ELSE RemoveDuplicatesLoop(snap, i + 1, names \cup {lowered}, live)

RemoveDuplicatesFrame(frame) == RemoveDuplicatesLoop(frame, 1, {}, frame)

\* an empty frame never enters the loop, so a missing Name column goes unnoticed
RemoveDuplicatesRaises(dir, input) ==
    \/ ~Exists(dir, input)
    \/ /\ ~HasCol(ReadCsv(dir[Resolve(input)]).columns, "Name")
       /\ dir[Resolve(input)].rows # <<>>

RemoveDuplicates(input) ==
    /\ IF RemoveDuplicatesRaises(fs, input)
       THEN /\ held' = NoFrame
            /\ fs' = fs
       ELSE LET result == RemoveDuplicatesFrame(ReadCsv(fs[Resolve(input)]))
            IN  /\ held' = result
                /\ fs' = [fs EXCEPT ![RemoveDuplicatesOutput] = ToCsvNoIndex(result)]
    /\ UNCHANGED <<db, loaded, handles>>

\* tables given to removeDuplicates
DedupNames ==
    { <<"A", "b">>, <<"A", "B">>, <<"c">>, <<>>, <<"N", "A", "N">>, <<"7">> }

DedupIds == { <<"1">>, <<"2">> }

DedupHeader == <<"Compound ID", "Name">>

NoTable == [missing |-> TRUE]

\* the (database file, table name) pairs of the script's makeDatabase calls
Tables ==
    { <<"./chemBIChemicalsCASSetUpper.db", "chemBIChemicalsCASSetUpper">>,
      <<"./chemBIChemicals.db", "chemBIChemicals">> }

InitRest ==
    /\ prev = fs
    /\ db = [t \in Tables |-> NoTable]
    /\ loaded = <<>>
    /\ handles = 0
    /\ held = NoFrame
    /\ io = [reads |-> {}, wrote |-> {}, before |-> {}]
    /\ pc = "ready"
    /\ runs = 0

InitDedup ==
    /\ \E rows \in SeqsUpTo({<<id, nm>> : id \in DedupIds, nm \in DedupNames}, MaxRows) :
          fs = [EmptyDir EXCEPT ![ChebiChemicalsCASCsv] = File(DedupHeader, rows)]
    /\ InitRest

\* one call from the prompt: pc tells how it ended
Call(raises) ==
    /\ pc \in {"ready", "done"}
    /\ runs < MaxCalls
    /\ runs' = runs + 1
    /\ prev' = fs
    /\ pc' = IF raises THEN "raised" ELSE "done"
    /\ io' = io

DedupCall ==
    /\ runs = 0
    /\ Call(RemoveDuplicatesRaises(fs, ChebiChemicalsCASCsv))
    /\ RemoveDuplicates(ChebiChemicalsCASCsv)

NextDedup == DedupCall

SpecDedup == InitDedup /\ [][NextDedup]_vars

\* the Name cells of a file, top to bottom
NameCells(f) == ColumnCells(f.rows, ColPos(f.header, "Name"))

\* C1: after removeDuplicates, the file it wrote holds no two rows whose Name
\* texts are equal when compared case-insensitively
C1_NoCaseInsensitiveDuplicates ==
    pc = "done" =>
        LET cells == NameCells(fs[RemoveDuplicatesOutput])
        IN  \A i, j \in 1..Len(cells) :
                i < j => Lower(cells[i]) # Lower(cells[j])

\* C1 witness: a call has dropped a row whose Name differs from an earlier one
\* only by case
C1_Witness ==
    /\ pc = "done"
    /\ LET cells == NameCells(prev[ChebiChemicalsCASCsv])
       IN  /\ \E i, j \in 1..Len(cells) :
                 i < j /\ cells[i] # cells[j] /\ Lower(cells[i]) = Lower(cells[j])
           /\ Len(fs[RemoveDuplicatesOutput].rows) < Len(cells)

\* the positions of the rows of a frame whose key occurs in no earlier row
FirstOccurrences(frame) ==
    LET key(i) == Lower(PyStr(frame.rows[i][ColPos(frame.columns, "Name")]))
    IN  {i \in 1..Len(frame.rows) : \A j \in 1..(i - 1) : key(j) # key(i)}

\* the rows of a frame at the positions in P, in frame order
Pick(frame, P) ==
    LET pos(k) == CHOOSE i \in P : Cardinality({j \in P : j < i}) = k - 1
    IN  Frame(frame.columns,
              [k \in 1..Cardinality(P) |-> frame.index[pos(k)]],
              [k \in 1..Cardinality(P) |-> frame.rows[pos(k)]])

\* C8: the table removeDuplicates ends with is exactly the input rows whose
\* lowercased Name occurs in no earlier input row, in input order
C8_FirstOccurrenceKept ==
    pc = "done" =>
        LET input == ReadCsv(prev[ChebiChemicalsCASCsv])
        IN  /\ held = Pick(input, FirstOccurrences(input))
            /\ fs[RemoveDuplicatesOutput] = ToCsvNoIndex(held)

\* C8 witness: a call has dropped a row from the middle of the table and kept
\* a later one
C8_Witness ==
    /\ pc = "done"
    /\ LET input == ReadCsv(prev[ChebiChemicalsCASCsv])
       IN  /\ Len(input.rows) = 3
           /\ 2 \notin FirstOccurrences(input)
           /\ 3 \in FirstOccurrences(input)
           /\ held.index = <<0, 2>>

(***************************************************************************)
(* filter()                                                                *)
(***************************************************************************)
Marker == <<"C", "H", "E", "M", "B", "L">>

\* a test that ignores case
HasMarkerAnyCase(v) == Contains(Upper(v.str), Marker)

\* "CHEMBL" in row["Synonym"], for a Synonym that is a str
HasMarker(v) == Contains(v.str, Marker)

\* the loop over batch.iterrows(), dropping from the frame being walked
RECURSIVE FilterLoop(_, _, _)
FilterLoop(snap, i, live) ==
    IF i > Len(snap.rows) THEN live
    ELSE IF HasMarker(snap.rows[i][ColPos(snap.columns, "Synonym")])
         THEN FilterLoop(snap, i + 1, DropLabel(live, snap.index[i]))
         ELSE FilterLoop(snap, i + 1, live)

FilterFrame(batch) == FilterLoop(batch, 1, batch)

\* `in` raises TypeError on a Synonym that is not a str (a missing value is a
\* float, a numeric column holds numbers); row["Synonym"] raises KeyError
FilterRaises(dir) ==
    \/ ~Exists(dir, SynonymsBatchCsv)
    \/ LET batch == ReadCsv(dir[SynonymsBatchCsv])
           p == ColPos(batch.columns, "Synonym")
       IN  /\ batch.rows # <<>>
           /\ p = 0 \/ \E i \in 1..Len(batch.rows) : ~IsStr(batch.rows[i][p])

Filter ==
    /\ IF FilterRaises(fs)
       THEN /\ held' = NoFrame
            /\ fs' = fs
       ELSE LET result == FilterFrame(ReadCsv(fs[SynonymsBatchCsv]))
            IN  /\ held' = result
                /\ fs' = [fs EXCEPT ![SynonymsBatchCsv] = ToCsvWithIndex(result)]
    /\ UNCHANGED <<db, loaded, handles>>

\* tables given to filter
FilterSynonyms ==
    { <<"C", "H", "E", "M", "B", "L", "1">>, <<"x", "C", "H", "E", "M", "B", "L">>,
      <<"c", "h", "e", "m", "b", "l">>, <<"C", "H", "E", "M", "B">>,
      <<"e", "t", "h">>, <<>> }

FilterIds == { <<"1">>, <<"2">> }

FilterHeader == <<"ID", "Synonym">>

InitFilter ==
    /\ \E rows \in SeqsUpTo({<<id, sy>> : id \in FilterIds, sy \in FilterSynonyms}, MaxRows) :
          fs = [EmptyDir EXCEPT ![SynonymsBatchCsv] = File(FilterHeader, rows)]
    /\ InitRest

FilterCall == Call(FilterRaises(fs)) /\ Filter

NextFilter == FilterCall

SpecFilter == InitFilter /\ [][NextFilter]_vars

\* the <<ID, Synonym>> texts of the rows of a file, top to bottom
IdSynonymPairs(f) ==
    [i \in 1..Len(f.rows) |-> <<f.rows[i][ColPos(f.header, "ID")],
                                f.rows[i][ColPos(f.header, "Synonym")]>>]

\* C6: a filter call that returns leaves in the file exactly the rows it found
\* there whose Synonym does not contain "CHEMBL" (upper case only), in their
\* original order
C6_FilterRemovesMarkedRows ==
    pc = "done" =>
        LET before == IdSynonymPairs(prev[SynonymsBatchCsv])
        IN  IdSynonymPairs(fs[SynonymsBatchCsv]) =
                SelectSeq(before, LAMBDA r : ~Contains(r[2], Marker))

\* C6 witness: a call has removed a marked row from between two rows it kept,
\* one of them holding the marker in lower case
C6_Witness ==
    /\ pc = "done"
    /\ LET before == IdSynonymPairs(prev[SynonymsBatchCsv])
       IN  /\ Len(before) = 3
           /\ Contains(before[2][2], Marker)
           /\ Contains(Upper(before[1][2]), Marker)
           /\ Len(fs[SynonymsBatchCsv].rows) = 2

\* C7: a stage that returns leaves the columns of the file it wrote as they
\* were: filter, writing in place, adds no column
C7_FilterAddsNoColumn ==
    pc = "done" => fs[SynonymsBatchCsv].header = prev[SynonymsBatchCsv].header

(***************************************************************************)
(* lowercaseNames(input)                                                   *)
(***************************************************************************)
\* Series.str.upper() on one element: a missing value stays missing
StrUpper(v) == IF IsStr(v) THEN StrV(Upper(v.str)) ELSE NaN

\* data["Name"] raises KeyError without the column; .str raises AttributeError
\* on a column that is not of dtype object
LowercaseNamesRaises(dir, input) ==
    \/ ~Exists(dir, input)
    \/ LET f == dir[Resolve(input)]
           p == ColPos(f.header, "Name")
       IN  p = 0 \/ ColumnType(ColumnCells(f.rows, p)) # "object"

LowercaseNamesFrame(frame) ==
    LET p == ColPos(frame.columns, "Name")
    IN  Frame(frame.columns, frame.index,
              [i \in 1..Len(frame.rows) |->
                 [q \in 1..Len(frame.columns) |->
                    IF q = p THEN StrUpper(frame.rows[i][q]) ELSE frame.rows[i][q]]])

LowercaseNames(input) ==
    /\ IF LowercaseNamesRaises(fs, input)
       THEN /\ held' = NoFrame
            /\ fs' = fs
       ELSE LET result == LowercaseNamesFrame(ReadCsv(fs[Resolve(input)]))
            IN  /\ held' = result
                /\ fs' = [fs EXCEPT ![LowercaseNamesOutput] = ToCsvNoIndex(result)]
    /\ UNCHANGED <<db, loaded, handles>>

(***************************************************************************)
(* mergeCSVCheBI()                                                         *)
(***************************************************************************)
Missing == StrV(<<"M", "I", "S", "S", "I", "N", "G">>)

\* a dict key: equal numbers are one key, whether int or float
DictKey(v) == IF IsFloat(v) THEN IntV(v.float) ELSE v

\* d[key] = value
DictSet(d, key, value) ==
    [k \in DOMAIN d \cup {key} |-> IF k = key THEN value ELSE d[k]]

\* d.get(key)
DictGet(d, key) == IF key \in DOMAIN d THEN d[key] ELSE PyNone

\* for index, row in csv.iterrows(): d[row["Compound ID"]] = row[column]
RECURSIVE BuildIndex(_, _, _, _)
BuildIndex(frame, column, i, d) ==
    IF i > Len(frame.rows) THEN d
    ELSE BuildIndex(frame, column, i + 1,
                    DictSet(d, DictKey(frame.rows[i][ColPos(frame.columns, "Compound ID")]),
                            frame.rows[i][ColPos(frame.columns, column)]))

\* chosen = d.get(row["Compound ID"]); the value appended to the list
Chosen(d, id) ==
    LET chosen == DictGet(d, DictKey(id))
    IN  IF Truthy(chosen) THEN chosen ELSE Missing

MergeFrame(formulaCSV, casCSV, synonyms) ==
    LET formulas == BuildIndex(formulaCSV, "Formula", 1, <<>>)
        cas == BuildIndex(casCSV, "Accession Number", 1, <<>>)
        p == ColPos(synonyms.columns, "Compound ID")
    IN  Frame(synonyms.columns \o <<"Formula", "CAS">>,
              synonyms.index,
              [i \in 1..Len(synonyms.rows) |->
                 synonyms.rows[i] \o <<Chosen(formulas, synonyms.rows[i][p]),
                                       Chosen(cas, synonyms.rows[i][p])>>])

\* row[...] raises KeyError on a table that lacks the column and has a row
LacksColumn(f, column) == f.rows # <<>> /\ ~HasCol(f.header, column)

MergeRaises(dir) ==
    \/ ~Exists(dir, ChebiFormulasCsv)
    \/ ~Exists(dir, ChebiCASCsv)
    \/ ~Exists(dir, ChebiNamesCsv)
    \/ LacksColumn(dir[ChebiFormulasCsv], "Compound ID")
    \/ LacksColumn(dir[ChebiFormulasCsv], "Formula")
    \/ LacksColumn(dir[ChebiCASCsv], "Compound ID")
    \/ LacksColumn(dir[ChebiCASCsv], "Accession Number")
    \/ LacksColumn(dir[ChebiNamesCsv], "Compound ID")
    \/ LacksColumn(dir[ChebiNamesCsv], "Name")

MergeCSVCheBI ==
    /\ IF MergeRaises(fs)
       THEN /\ held' = NoFrame
            /\ fs' = fs
       ELSE LET result == MergeFrame(ReadCsv(fs[ChebiFormulasCsv]),
                                     ReadCsv(fs[ChebiCASCsv]),
                                     ReadCsv(fs[ChebiNamesCsv]))
            IN  /\ held' = result
                /\ fs' = [fs EXCEPT ![ChebiChemicalsCASCsv] = ToCsvNoIndex(result)]
    /\ UNCHANGED <<db, loaded, handles>>

\* tables given to mergeCSVCheBI
MergeIds == { <<"1">>, <<"2">> }

MergeNames == { <<"a">> }

MergeFormulas == { <<"C">>, <<"0">>, <<>> }

MergeAccessions == { <<"5", "-", "0">>, <<"0">> }

InitMerge ==
    /\ \E names \in SeqsUpTo({<<id, x>> : id \in MergeIds, x \in MergeNames}, MaxRows),
          formulas \in SeqsUpTo({<<id, x>> : id \in MergeIds, x \in MergeFormulas},
                                MaxLookupRows),
          cas \in SeqsUpTo({<<id, x>> : id \in MergeIds, x \in MergeAccessions},
                           MaxLookupRows) :
          fs = [EmptyDir EXCEPT
                  ![ChebiNamesCsv] = File(<<"Compound ID", "Name">>, names),
                  ![ChebiFormulasCsv] = File(<<"Compound ID", "Formula">>, formulas),
                  ![ChebiCASCsv] = File(<<"Compound ID", "Accession Number">>, cas)]
    /\ InitRest

MergeCall == runs = 0 /\ Call(MergeRaises(fs)) /\ MergeCSVCheBI

NextMerge == MergeCall

SpecMerge == InitMerge /\ [][NextMerge]_vars

\* the rows of a table whose Compound ID is id
RowsWithId(frame, id) ==
    {i \in 1..Len(frame.rows) :
        frame.rows[i][ColPos(frame.columns, "Compound ID")] = id}

\* the text of column `column` in the last row of the table whose Compound ID
\* is id
LastText(frame, column, id) ==
    LET last == CHOOSE i \in RowsWithId(frame, id) :
                    \A j \in RowsWithId(frame, id) : j <= i
    IN  CellText(frame.rows[last][ColPos(frame.columns, column)])

\* what the claim expects in the Formula or CAS field of a Names row
Expected(frame, column, id) ==
    IF RowsWithId(frame, id) # {} THEN LastText(frame, column, id)
    ELSE <<"M", "I", "S", "S", "I", "N", "G">>

\* C2: mergeCSVCheBI writes one row per Names row, in order, whose Formula
\* (CAS) field is the value indexed for the row's Compound ID when the
\* Formulas (CAS) table has that ID, and "MISSING" exactly when it has not
C2_SentinelExactlyWhenAbsent ==
    pc = "done" =>
        LET names == ReadCsv(prev[ChebiNamesCsv])
            formulaCSV == ReadCsv(prev[ChebiFormulasCsv])
            casCSV == ReadCsv(prev[ChebiCASCsv])
            out == fs[ChebiChemicalsCASCsv]
        IN  /\ Len(out.rows) = Len(names.rows)
            /\ \A i \in 1..Len(out.rows) :
                 LET id == names.rows[i][1]
                 IN  /\ SubSeq(out.rows[i], 1, 2) = prev[ChebiNamesCsv].rows[i]
                     /\ out.rows[i][3] = Expected(formulaCSV, "Formula", id)
                     /\ out.rows[i][4] = Expected(casCSV, "Accession Number", id)
                     /\ (out.rows[i][3] = Missing.str)
                            <=> (RowsWithId(formulaCSV, id) = {})
                     /\ (out.rows[i][4] = Missing.str)
                            <=> (RowsWithId(casCSV, id) = {})

\* C9: when a Compound ID occurs in several rows of the Formulas (CAS) table,
\* the Formula (CAS) field of every Names row with that ID is the value of the
\* last such row
C9_LastWriteWins ==
    pc = "done" =>
        LET names == ReadCsv(prev[ChebiNamesCsv])
            formulaCSV == ReadCsv(prev[ChebiFormulasCsv])
            casCSV == ReadCsv(prev[ChebiCASCsv])
            out == fs[ChebiChemicalsCASCsv]
        IN  \A i \in 1..Len(out.rows) :
               LET id == names.rows[i][1]
               IN  /\ Cardinality(RowsWithId(formulaCSV, id)) > 1
                        => out.rows[i][3] = LastText(formulaCSV, "Formula", id)
                   /\ Cardinality(RowsWithId(casCSV, id)) > 1
                        => out.rows[i][4] = LastText(casCSV, "Accession Number", id)

(***************************************************************************)
(* The decompressors.                                                      *)
(***************************************************************************)
CidMass == "./cid-mass"

CidSynonyms == "./cid-synonyms"

Names3Star == "./names_3star.tsv"

ChemicalData == "chemical_data.tsv"

DatabaseAccession == "database_accession.tsv"

FormulaType == <<"F", "O", "R", "M", "U", "L", "A">>

CasType == <<"C", "A", "S", " ", "R", "e", "g", "i", "s", "t", "r", "y", " ",
             "N", "u", "m", "b", "e", "r">>

\* pd.read_csv(path, names=[...]): a file without header line, labelled by names
ReadCsvNames(f, names) == ReadCsv(File(names, f.rows))

\* frame.drop(columns=[...]) / frame.drop(name, axis=1)
DropColumns(frame, names) ==
    LET keep == {p \in 1..Len(frame.columns) : frame.columns[p] \notin names}
        pos(k) == CHOOSE p \in keep : Cardinality({q \in keep : q < p}) = k - 1
        m == Cardinality(keep)
    IN  Frame([k \in 1..m |-> frame.columns[pos(k)]],
              frame.index,
              [i \in 1..Len(frame.rows) |-> [k \in 1..m |-> frame.rows[i][pos(k)]]])

\* frame.columns = [...]
Rename(frame, names) == Frame(names, frame.index, frame.rows)

\* int(v), as astype('int') applies it to one element
CanInt(v) == IsInt(v) \/ IsFloat(v) \/ (IsStr(v) /\ IsIntText(v.str))

ToInt(v) ==
    IF IsInt(v) THEN v
    ELSE IF IsFloat(v) THEN IntV(v.float)
    ELSE IntV(IntVal(v.str))

\* frame["Compound ID"] = frame["Compound ID"].astype('int')
AsTypeInt(frame) ==
    LET p == ColPos(frame.columns, "Compound ID")
    IN  Frame(frame.columns, frame.index,
              [i \in 1..Len(frame.rows) |->
                 [q \in 1..Len(frame.columns) |->
                    IF q = p THEN ToInt(frame.rows[i][q]) ELSE frame.rows[i][q]]])

AsTypeIntRaises(frame) ==
    \E i \in 1..Len(frame.rows) :
        ~CanInt(frame.rows[i][ColPos(frame.columns, "Compound ID")])

\* frame.sort_values(by="Compound ID", inplace=True); rows with equal keys keep
\* their order (numpy sorts the short arrays of this model by insertion)
SortValues(frame) ==
    LET p == ColPos(frame.columns, "Compound ID")
        n == Len(frame.rows)
        key(i) == frame.rows[i][p].int
        rank(i) == Cardinality({j \in 1..n :
                       key(j) < key(i) \/ (key(j) = key(i) /\ j < i)}) + 1
        pos(k) == CHOOSE i \in 1..n : rank(i) = k
    IN  Frame(frame.columns,
              [k \in 1..n |-> frame.index[pos(k)]],
              [k \in 1..n |-> frame.rows[pos(k)]])

\* the rows of the frame whose Type is `type`
KeepType(frame, type) ==
    Pick(frame, {i \in 1..Len(frame.rows) :
                    frame.rows[i][ColPos(frame.columns, "Type")] = StrV(type)})

\* what a decompressor leaves behind: the frame it wrote to `output`
Write(output, result) ==
    /\ held' = result
    /\ fs' = [fs EXCEPT ![output] = ToCsvNoIndex(result)]
    /\ UNCHANGED <<db, loaded, handles>>

Abort ==
    /\ held' = NoFrame
    /\ fs' = fs
    /\ UNCHANGED <<db, loaded, handles>>

DecompressMass ==
    IF ~Exists(fs, CidMass) THEN Abort
    ELSE Write("./cid-mass.csv",
               DropColumns(ReadCsvNames(fs[CidMass],
                               <<"ID", "Formula", "Monoisotopic Mass", "Exact Mass">>),
                           {"Monoisotopic Mass", "Exact Mass"}))

DecompressSynonyms ==
    IF ~Exists(fs, CidSynonyms) THEN Abort
    ELSE Write("./cid-synonyms.csv", ReadCsvNames(fs[CidSynonyms], <<"ID", "Synonym">>))

\* the frame of decompressCheBINames before astype
NamesProjected(dir) ==
    Rename(DropColumns(ReadCsv(dir[Names3Star]),
                       {"ID", "TYPE", "SOURCE", "ADAPTED", "LANGUAGE"}),
           <<"Compound ID", "Name">>)

DecompressCheBINamesRaises(dir) ==
    ~Exists(dir, Names3Star) \/ AsTypeIntRaises(NamesProjected(dir))

DecompressCheBINames ==
    IF DecompressCheBINamesRaises(fs) THEN Abort
    ELSE Write(ChebiNamesCsv, SortValues(AsTypeInt(NamesProjected(fs))))

\* the frame of decompressCheBIFormulas before astype
FormulasProjected(dir) ==
    DropColumns(KeepType(Rename(DropColumns(ReadCsv(dir[ChemicalData]), {"ID", "SOURCE"}),
                                <<"Compound ID", "Type", "Formula">>),
                         FormulaType),
                {"Type"})

DecompressCheBIFormulasRaises(dir) ==
    ~Exists(dir, ChemicalData) \/ AsTypeIntRaises(FormulasProjected(dir))

DecompressCheBIFormulas ==
    IF DecompressCheBIFormulasRaises(fs) THEN Abort
    ELSE Write(ChebiFormulasCsv, SortValues(AsTypeInt(FormulasProjected(fs))))

\* the frame of decompressCheBICAS before astype, where cas.index[[mask]] selects
\* by the mask
CasProjected(dir) ==
    DropColumns(KeepType(Rename(DropColumns(ReadCsv(dir[DatabaseAccession]),
                                            {"ID", "SOURCE"}),
                                <<"Compound ID", "Type", "Accession Number">>),
                         CasType),
                {"Type"})

\* cas.index[[mask]] indexes with a list that holds one boolean Series: older
\* numpy takes the list for the mask itself, newer numpy raises IndexError
DecompressCheBICASRaises(dir, listIsMask) ==
    ~Exists(dir, DatabaseAccession) \/ ~listIsMask \/ AsTypeIntRaises(CasProjected(dir))

DecompressCheBICAS(listIsMask) ==
    IF DecompressCheBICASRaises(fs, listIsMask) THEN Abort
    ELSE Write(ChebiCASCsv, SortValues(AsTypeInt(CasProjected(fs))))

\* raw tables given to the decompressors
RawIds == { <<"2">>, <<"1">>, <<"x">> }

RawEntries == {<<id, match>> : id \in RawIds, match \in BOOLEAN}

RawText == <<"C">>

OtherType == <<"M", "A", "S", "S">>

MassRow(e) == <<e[1], RawText, <<"1">>, <<"1">>>>

SynonymRow(e) == <<e[1], RawText>>

NamesRow(e) == <<<<"7">>, e[1], <<"N">>, <<"S">>, RawText, <<"F">>, <<"e">>>>

TypedRow(e, type) == <<<<"7">>, e[1], <<"S">>, IF e[2] THEN type ELSE OtherType, RawText>>

InitDecompress ==
    /\ \E es \in SeqsUpTo(RawEntries, MaxRows) :
          fs = [EmptyDir EXCEPT
                  ![CidMass] = File(<<>>, [i \in 1..Len(es) |-> MassRow(es[i])]),
                  ![CidSynonyms] = File(<<>>, [i \in 1..Len(es) |-> SynonymRow(es[i])]),
                  ![Names3Star] =
                      File(<<"ID", "COMPOUND_ID", "TYPE", "SOURCE", "NAME", "ADAPTED",
                             "LANGUAGE">>,
                           [i \in 1..Len(es) |-> NamesRow(es[i])]),
                  ![ChemicalData] =
                      File(<<"ID", "COMPOUND_ID", "SOURCE", "TYPE", "CHEMICAL_DATA">>,
                           [i \in 1..Len(es) |-> TypedRow(es[i], FormulaType)]),
                  ![DatabaseAccession] =
                      File(<<"ID", "COMPOUND_ID", "SOURCE", "TYPE", "ACCESSION_NUMBER">>,
                           [i \in 1..Len(es) |-> TypedRow(es[i], CasType)])]
    /\ InitRest

DecompressMassCall == Call(~Exists(fs, CidMass)) /\ DecompressMass

DecompressSynonymsCall == Call(~Exists(fs, CidSynonyms)) /\ DecompressSynonyms

DecompressCheBINamesCall ==
    Call(DecompressCheBINamesRaises(fs)) /\ DecompressCheBINames

DecompressCheBIFormulasCall ==
    Call(DecompressCheBIFormulasRaises(fs)) /\ DecompressCheBIFormulas

DecompressCheBICASCall ==
    \E listIsMask \in BOOLEAN :
        Call(DecompressCheBICASRaises(fs, listIsMask)) /\ DecompressCheBICAS(listIsMask)

NextDecompress ==
    \/ DecompressMassCall
    \/ DecompressSynonymsCall
    \/ DecompressCheBINamesCall
    \/ DecompressCheBIFormulasCall
    \/ DecompressCheBICASCall

SpecDecompress == InitDecompress /\ [][NextDecompress]_vars

\* C3: the rows a decompressor emits have an integer compound identifier (the
\* first column) and are in non-decreasing order of it
C3_DecompressorsSortedIntegerIds ==
    pc = "done" =>
        /\ \A i \in 1..Len(held.rows) : IsInt(held.rows[i][1])
        /\ \A i, j \in 1..Len(held.rows) :
              i < j => held.rows[i][1].int <= held.rows[j][1].int

(***************************************************************************)
(* makeDatabase(input, output, outputName)                                 *)
(***************************************************************************)
IsTable(t) == DOMAIN t = {"columns", "types", "rows"}

Table(columns, types, rows) == [columns |-> columns, types |-> types, rows |-> rows]

TableRows(t) == IF IsTable(t) THEN t.rows ELSE <<>>

\* the dtype of column p of a frame
DType(frame, p) ==
    IF frame.rows = <<>> THEN "object"
    ELSE IF \A i \in 1..Len(frame.rows) : IsInt(frame.rows[i][p]) THEN "int64"
    ELSE IF \A i \in 1..Len(frame.rows) :
                IsInt(frame.rows[i][p]) \/ IsFloat(frame.rows[i][p]) \/ IsNaN(frame.rows[i][p])
         THEN "float64"
    ELSE "object"

\* the column type to_sql declares for a dtype
SqlType(dtype) ==
    IF dtype = "int64" THEN "INTEGER" ELSE IF dtype = "float64" THEN "REAL" ELSE "TEXT"

\* the value sqlite stores for v in a column of the given type affinity; NaN is
\* stored as NULL and stays the missing value
Stored(type, v) ==
    IF IsNaN(v) THEN v
    ELSE IF type = "TEXT" THEN StrV(PyStr(v))
    ELSE IF type = "INTEGER"
         THEN IF CanInt(v) THEN ToInt(v) ELSE v
    ELSE IF IsInt(v) THEN FloatV(v.int)
         ELSE IF IsStr(v) /\ IsIntText(v.str) THEN FloatV(IntVal(v.str))
         ELSE v

\* CREATE TABLE from the frame's columns
CreateTable(frame) ==
    Table(frame.columns,
          [p \in 1..Len(frame.columns) |-> SqlType(DType(frame, p))],
          <<>>)

\* INSERT of every frame row; a table column the frame lacks is left NULL
InsertRows(table, frame) ==
    [table EXCEPT !.rows = @ \o
        [i \in 1..Len(frame.rows) |->
           [q \in 1..Len(table.columns) |->
              IF HasCol(frame.columns, table.columns[q])
              THEN Stored(table.types[q],
                          frame.rows[i][ColPos(frame.columns, table.columns[q])])
              ELSE NaN]]]

\* if_exists='replace': the table is dropped and created again
ToSqlReplace(table, frame) == InsertRows(CreateTable(frame), frame)

\* data.to_sql(outputName, chemicals, if_exists='append', index=False)
ToSqlAppend(table, frame) ==
    InsertRows(IF IsTable(table) THEN table ELSE CreateTable(frame), frame)

\* the INSERT names a column the existing table does not have
ToSqlRaises(table, frame) ==
    /\ IsTable(table)
    /\ \E p \in 1..Len(frame.columns) : ~HasCol(table.columns, frame.columns[p])

MakeDatabaseRaises(dir, store, input, output, outputName) ==
    \/ ~Exists(dir, input)
    \/ ToSqlRaises(store[<<output, outputName>>], ReadCsv(dir[Resolve(input)]))

\* read_csv, connect, to_sql, close: an error in to_sql leaves the function before
\* chemicals.close() is reached
MakeDatabase(input, output, outputName) ==
    /\ fs' = fs
    /\ IF ~Exists(fs, input)
       THEN /\ held' = NoFrame
            /\ UNCHANGED <<db, loaded, handles>>
       ELSE LET frame == ReadCsv(fs[Resolve(input)])
                target == <<output, outputName>>
            IN  /\ held' = frame
                /\ IF ToSqlRaises(db[target], frame)
                   THEN /\ handles' = handles + 1
                        /\ UNCHANGED <<db, loaded>>
                   ELSE /\ db' = [db EXCEPT ![target] = ToSqlAppend(@, frame)]
                        /\ loaded' = Append(loaded, [target |-> target, frame |-> frame])
                        /\ handles' = handles

\* CSV files given to makeDatabase
UpperCsv == "./chebiChemicalsCASSetUpper.csv"

ChemicalsCsv == "./chebiChemicals.csv"

LoadIds == { <<"1">>, <<"2">> }

LoadNames == { <<"A">>, <<"7">> }

InitDB ==
    /\ \E rows \in SeqsUpTo({<<id, nm>> : id \in LoadIds, nm \in LoadNames}, MaxRows) :
          fs = [EmptyDir EXCEPT
                  ![UpperCsv] = File(<<"Compound ID", "Name">>, rows),
                  ![ChemicalsCsv] = File(<<"Compound ID", "Name", "CAS">>,
                                         << << <<"1">>, <<"A">>, <<"5", "-", "0">> >> >>)]
    /\ InitRest

MakeDatabaseCall ==
    \E input \in {UpperCsv, ChemicalsCsv}, target \in Tables :
        /\ Call(MakeDatabaseRaises(fs, db, input, target[1], target[2]))
        /\ MakeDatabase(input, target[1], target[2])

\* the prompt is back after an error as well
Resume ==
    /\ pc = "raised"
    /\ pc' = "ready"
    /\ UNCHANGED <<fs, prev, db, loaded, handles, held, io, runs>>

NextDB == MakeDatabaseCall \/ Resume

SpecDB == InitDB /\ [][NextDB]_vars

\* C4: a makeDatabase call that returns adds one table row per CSV row behind
\* the rows the table already has, a call that raises adds none, and no call
\* changes or removes a row of any table; a fresh table holds the rows of the
\* first CSV loaded into it
C4_AppendOnly ==
    [][\A t \in Tables :
          LET old == TableRows(db[t])
              new == TableRows(db'[t])
              added == IF loaded' # loaded /\ loaded'[Len(loaded')].target = t
                       THEN loaded'[Len(loaded')].frame.rows ELSE <<>>
          IN  /\ SubSeq(new, 1, Len(old)) = old
              /\ Len(new) = Len(old) + Len(added)
              /\ (pc' = "done") <=> (loaded' # loaded)
              /\ ~IsTable(db[t]) => new = added]_vars

\* C4 witness: the same two-row CSV has been loaded twice into a table that
\* did not exist, which now holds four rows
C4_Witness ==
    /\ Len(loaded) = 2
    /\ loaded[1] = loaded[2]
    /\ Len(loaded[1].frame.rows) = 2
    /\ Len(TableRows(db[loaded[1].target])) = 4
    /\ runs = 2

\* C5: whenever a makeDatabase call has ended, by return or by error, no store
\* handle it opened is still open
C5_HandleReleased == handles = 0

(***************************************************************************)
(* The script: the calls of lines 121-125, 128 and 129 in file order.      *)
(* Lines 126 and 127 load other files into other stores and are left out.  *)
(***************************************************************************)
\* the call at position `line`; an error ends the script
Line(line, next, raises, reads, writes, newStage) ==
    /\ pc = line
    /\ pc' = IF raises THEN "raised" ELSE next
    /\ runs' = runs + 1
    /\ prev' = fs
    /\ io' = [reads |-> reads,
              wrote |-> (IF newStage THEN {} ELSE io.wrote)
                            \cup (IF raises THEN {} ELSE writes),
              before |-> IF newStage THEN io.wrote ELSE io.before]

Line121 ==
    /\ Line("ready", "line122", DecompressCheBINamesRaises(fs),
            {Names3Star}, {ChebiNamesCsv}, TRUE)
    /\ DecompressCheBINames

Line122 ==
    /\ Line("line122", "line123", DecompressCheBIFormulasRaises(fs),
            {ChemicalData}, {ChebiFormulasCsv}, FALSE)
    /\ DecompressCheBIFormulas

Line123 ==
    \E listIsMask \in BOOLEAN :
        /\ Line("line123", "line124", DecompressCheBICASRaises(fs, listIsMask),
                {DatabaseAccession}, {ChebiCASCsv}, FALSE)
        /\ DecompressCheBICAS(listIsMask)

Line124 ==
    /\ Line("line124", "line125", MergeRaises(fs),
            {ChebiFormulasCsv, ChebiCASCsv, ChebiNamesCsv}, {ChebiChemicalsCASCsv}, TRUE)
    /\ MergeCSVCheBI

Line125 ==
    /\ Line("line125", "line128", RemoveDuplicatesRaises(fs, "./chebiChemicalsCAS.csv"),
            {"./chebiChemicalsCAS.csv"}, {RemoveDuplicatesOutput}, TRUE)
    /\ RemoveDuplicates("./chebiChemicalsCAS.csv")

Line128 ==
    /\ Line("line128", "line129", LowercaseNamesRaises(fs, "chebiChemicalsCASSet.csv"),
            {"chebiChemicalsCASSet.csv"}, {LowercaseNamesOutput}, TRUE)
    /\ LowercaseNames("chebiChemicalsCASSet.csv")

Line129 ==
    /\ Line("line129", "end",
            MakeDatabaseRaises(fs, db, "./chebiChemicalsCASSetUpper.csv",
                               "./chemBIChemicalsCASSetUpper.db",
                               "chemBIChemicalsCASSetUpper"),
            {"./chebiChemicalsCASSetUpper.csv"}, {}, TRUE)
    /\ MakeDatabase("./chebiChemicalsCASSetUpper.csv",
                    "./chemBIChemicalsCASSetUpper.db", "chemBIChemicalsCASSetUpper")

\* raw tables given to the script, and what an earlier run may have left
ScriptIds == { <<"2">>, <<"1">> }

ScriptNames == { <<"A", "b">>, <<"A", "B">>, <<"c">> }

ScriptNamesRow(r) == <<<<"7">>, r[1], <<"N">>, <<"S">>, r[2], <<"F">>, <<"e">>>>

ScriptChemicalData ==
    { <<>>,
      << << <<"7">>, <<"1">>, <<"S">>, FormulaType, <<"C">> >> >>,
      << << <<"7">>, <<"1">>, <<"S">>, OtherType, <<"C">> >> >> }

ScriptAccession ==
    { <<>>, << << <<"7">>, <<"2">>, <<"S">>, CasType, <<"5", "-", "0">> >> >> }

StaleUpperCsv ==
    File(<<"Compound ID", "Name", "Formula", "CAS">>,
         << << <<"9">>, <<"O", "L", "D">>, <<"C">>, <<"5", "-", "0">> >> >>)

InitScript ==
    /\ \E names \in SeqsUpTo({<<id, nm>> : id \in ScriptIds, nm \in ScriptNames}, MaxRows),
          chem \in ScriptChemicalData,
          acc \in ScriptAccession,
          stale \in {NoFile, StaleUpperCsv} :
          fs = [EmptyDir EXCEPT
                  ![Names3Star] =
                      File(<<"ID", "COMPOUND_ID", "TYPE", "SOURCE", "NAME", "ADAPTED",
                             "LANGUAGE">>,
                           [i \in 1..Len(names) |-> ScriptNamesRow(names[i])]),
                  ![ChemicalData] =
                      File(<<"ID", "COMPOUND_ID", "SOURCE", "TYPE", "CHEMICAL_DATA">>, chem),
                  ![DatabaseAccession] =
                      File(<<"ID", "COMPOUND_ID", "SOURCE", "TYPE", "ACCESSION_NUMBER">>,
                           acc),
                  ![UpperCsv] = stale]
    /\ InitRest

NextScript ==
    \/ Line121
    \/ Line122
    \/ Line123
    \/ Line124
    \/ Line125
    \/ Line128
    \/ Line129

SpecScript == InitScript /\ [][NextScript]_vars

\* C10: from the Merger on, each stage reads exactly the files the stage before
\* it wrote (names compared character for character once a relative name is
\* resolved against the directory), and once makeDatabase has run the table
\* holds the rows lowercaseNames has just written
C10_StagesChained ==
    /\ runs >= 4 => {Resolve(p) : p \in io.reads} = io.before
    /\ runs = 7 =>
          TableRows(db[<<"./chemBIChemicalsCASSetUpper.db", "chemBIChemicalsCASSetUpper">>])
              = ReadCsv(fs[LowercaseNamesOutput]).rows

====
